---- MODULE Spec2Model ----
(***************************************************************************)
(* A model of the go-tarantool failover pool (package multi,               *)
(* ConnectionMulti) and of the stream layer (Stream.Do) of package         *)
(* tarantool.                                                              *)
(*                                                                         *)
(* The pool owns a map from address to connection, a fallback connection,  *)
(* a tracked address list and one background goroutine, checker, that      *)
(* repairs the map on connection events and on two timers.  The single     *)
(* connection (tarantool.Connection, tarantool.Connect) is the pool's      *)
(* collaborator: it is modelled by its observable state (connected,        *)
(* disconnected, closed) and by the events it puts on the pool's notify    *)
(* channel.                                                                *)
(***************************************************************************)
EXTENDS Integers, Sequences, FiniteSets, TLC

\* ------------------------------------------------------------------ bounds

\* Longest address list handed to ConnectWithOpts.
MaxAddrs == 3
\* Connection objects dialed in one behaviour.
MaxConns == 3
\* Events of the environment (a node going down or up, a connection lost,
\* reconnected or closed from outside, the cluster reconfigured) in one
\* behaviour.
MaxEnv == 2
\* Streams created in one behaviour.
MaxStreams == 2
\* Timeouts of a begin request: whole seconds and nanoseconds beyond them,
\* up to these, of either sign.
MaxSeconds == 1
MaxNanos == 2
\* Longest tracked address list of the pools whose whole life is followed,
\* as configured and as the discovery function returns it.
MaxList == 2

\* ---------------------------------------------------------------- constants

connConnected == 0
connClosed == 1
\* The notify channel holds NotifyPerAddr events per configured address.
NotifyPerAddr == 10

Addr == {"A", "B", "C"}
NoAddr == "-"
\* The most calls of the encoder one begin body takes (lines 41-64).
MaxItems == 5
\* The nil *tarantool.Connection; connections are numbered from 1 in the
\* order they are dialed.
Nil == 0
ConnId == 1..MaxConns

VARIABLES
    opts,       \* OptsMulti: CheckTimeout, NodesGetFunctionName (set or not)
    addrs,      \* connMulti.addrs, the tracked address list
    pool,       \* connMulti.pool: address -> connection (Nil: no entry)
    fallback,   \* connMulti.fallback
    state,      \* connMulti.state
    control,    \* connMulti.control: TRUE once the channel is closed
    notify,     \* connMulti.notify: [buf: queued events, cap: capacity]
    mutex,      \* connMulti.mutex: who holds it exclusively, "none" if nobody
    ctor,       \* ConnectWithOpts: its position, warm-up index and locals
    chk,        \* the checker goroutine: its position and locals
    iter,       \* what the checker's current (or last) iteration has done
    conns,      \* every connection dialed so far: [addr, st]
    up,         \* the addresses that accept a dial right now
    nodes,      \* the address list the discovery function returns right now
    env,        \* number of environment events so far
    last,       \* the caller operation that has just returned, if any
    watch,      \* the selected connection that was closed from outside, and
                \* the health checks completed since
    streams,    \* the Stream objects created so far: [Id, Conn]
    sdo,        \* the Stream.Do call that has just returned, if any
    req,        \* a BeginRequest: [txnIsolation, timeout (nanoseconds)]
    enc,        \* what its Body left in the encoder, and the error returned
    thr,        \* lock discipline: each thread's program and position
    rw,         \* lock discipline: connMulti.mutex, its writer and readers
    code,       \* the leading byte handed to the msgpack classifiers
    cls         \* what the four classifiers have answered for it

poolVars == <<opts, addrs, pool, fallback, state, control, notify, mutex,
              ctor, chk, iter, conns, up, nodes, env, last, watch>>

streamVars == <<streams, sdo>>

beginVars == <<req, enc>>

lockVars == <<thr, rw>>

codecVars == <<code, cls>>

\* What the pool's own steps leave alone.
sideVars == <<streamVars, beginVars, lockVars, codecVars>>

vars == <<poolVars, sideVars>>

\* ----------------------------------------------------------------- helpers

Range(s) == {s[i] : i \in 1..Len(s)}

AddrLists(lo, hi) == UNION {[1..n -> Addr] : n \in lo..hi}

\* indexOf(sstring, data): the first index of sstring in data, -1 if none.
indexOf(sstring, data) ==
    IF \E i \in 1..Len(data) : data[i] = sstring
    THEN (CHOOSE i \in 1..Len(data) :
             /\ data[i] = sstring
             /\ \A j \in 1..(i - 1) : data[j] # sstring) - 1
    ELSE -1

\* Connection.ConnectedNow, Connection.ClosedNow, Connection.Addr.
ConnectedNow(c) == conns[c].st = "connected"
ClosedNow(c) == conns[c].st = "closed"
AddrOf(c) == conns[c].addr

\* A connection puts an event on the channel given in Opts.Notify; the send
\* does not wait, an event that finds the channel full is dropped.
Push(n, c) ==
    IF Len(n.buf) < n.cap THEN [n EXCEPT !.buf = Append(@, c)] ELSE n

RECURSIVE PushAll(_, _)
PushAll(n, cs) ==
    IF cs = <<>> THEN n ELSE PushAll(Push(n, Head(cs)), Tail(cs))

\* The elements of a set of connections as a sequence, in dialing order.
RECURSIVE SeqOfSet(_)
SeqOfSet(S) ==
    IF S = {} THEN <<>>
    ELSE LET m == CHOOSE x \in S : \A y \in S : x <= y
         IN <<m>> \o SeqOfSet(S \ {m})

\* Connection.Close on every connection of cs: open ones become closed and
\* report it on the notify channel.
CloseAll(cs) ==
    [c \in DOMAIN conns |->
        IF c \in cs THEN [conns[c] EXCEPT !.st = "closed"] ELSE conns[c]]

ClosedEvents(cs) == SeqOfSet({c \in cs : conns[c].st # "closed"})

\* tarantool.Connect(addr, connOpts): what a dial of a can return right now.
\* A node that is up yields a connected connection; a node that is down
\* yields nil (and an error) or, with Opts.Reconnect set, a connection that
\* is still trying to connect.
DialOutcomes(a) ==
    IF a \in up THEN {"connected"} ELSE {"nil", "disconnected"}

\* The result of one dial: conn is the new connection (Nil on failure).
Dialed(a, o, conn) ==
    IF o = "nil"
    THEN /\ conn = Nil
         /\ UNCHANGED conns
    ELSE /\ conn = Len(conns) + 1
         /\ conns' = Append(conns, [addr |-> a, st |-> o])

\* A connection that comes up reports Connected on the notify channel.
DialEvents(n, o, conn) == IF o = "connected" THEN Push(n, conn) ELSE n

NoCall == [op |-> "none", conn |-> Nil, bound |-> Nil, failed |-> FALSE,
           fallback0 |-> Nil, calls |-> <<>>, fails |-> {}, err |-> 0]

WatchNone == [conn |-> Nil, ticks |-> 0]

ChkIdle == [pc |-> "idle", addr |-> NoAddr, conn |-> Nil, i |-> 0,
            list |-> <<>>]

IterNone == [branch |-> "none", done |-> FALSE, addrs0 |-> <<>>,
             pool0 |-> [a \in Addr |-> Nil], n0 |-> 0, dialed |-> <<>>,
             closed |-> {}, resp |-> "none", list |-> <<>>, calls |-> 0,
             ev |-> Nil, dead0 |-> {}, quiet |-> TRUE]

\* ------------------------------------------------------------ selection

\* A scan that returns the last connected entry instead of the first.
RECURSIVE scanLastConnected(_, _)
scanLastConnected(i, fb) ==
    IF i > Len(addrs) THEN [conn |-> fb, fallback |-> fb]
    ELSE LET conn == pool[addrs[i]]
             rest == scanLastConnected(i + 1, fb)
         IN IF conn # Nil /\ ConnectedNow(conn)
               /\ ~(rest.conn # Nil /\ ConnectedNow(rest.conn))
            THEN [conn |-> conn, fallback |-> fb]
            ELSE rest

\* A scan that leaves the fallback as it finds it.
RECURSIVE scanKeepFallback(_, _)
scanKeepFallback(i, fb) ==
    IF i > Len(addrs) THEN [conn |-> fb, fallback |-> fb]
    ELSE LET conn == pool[addrs[i]]
         IN IF conn # Nil /\ ConnectedNow(conn)
            THEN [conn |-> conn, fallback |-> fb]
            ELSE scanKeepFallback(i + 1, fb)

\* getCurrentConnection, from index i on with fb the fallback so far: the
\* returned connection and the fallback it leaves.
RECURSIVE scanFrom(_, _)
scanFrom(i, fb) ==
    IF i > Len(addrs) THEN [conn |-> fb, fallback |-> fb]
    ELSE LET conn == pool[addrs[i]]
         IN IF conn # Nil
            THEN IF ConnectedNow(conn)
                 THEN [conn |-> conn, fallback |-> fb]
                 ELSE scanFrom(i + 1, conn)
            ELSE scanFrom(i + 1, fb)

\* A selection that does not look at the pool.
getCurrentConnectionFallbackOnly == [conn |-> fallback, fallback |-> fallback]

getCurrentConnection == scanFrom(1, fallback)

\* getConnectionFromPool(addr): the entry and whether there is one.
getConnectionFromPool(addr) ==
    [conn |-> pool[addr], ok |-> pool[addr] # Nil]

\* setConnectionToPool, deleteConnectionFromPool: the map they leave.
setConnectionToPool(addr, conn) == [pool EXCEPT ![addr] = conn]
deleteConnectionFromPool(addr) == [pool EXCEPT ![addr] = Nil]

\* ---------------------------------------------------------- construction

\* The argument checks without the one of CheckTimeout.
ValidateNoTimeoutCheck ==
    /\ ctor.pc = "new"
    /\ IF Len(addrs) = 0
       THEN /\ ctor' = [ctor EXCEPT !.pc = "ErrEmptyAddrs"]
            /\ UNCHANGED notify
       ELSE /\ ctor' = [ctor EXCEPT !.pc = "warmUp", !.i = 1]
            /\ notify' = [buf |-> <<>>, cap |-> NotifyPerAddr * Len(addrs)]
    /\ last' = NoCall
    /\ UNCHANGED <<opts, addrs, pool, fallback, state, control, mutex, chk,
                   iter, conns, up, nodes, env, watch, sideVars>>

\* ConnectWithOpts, lines 77-96: the argument checks, then the pool object.
Validate ==
    /\ ctor.pc = "new"
    /\ IF Len(addrs) = 0
       THEN /\ ctor' = [ctor EXCEPT !.pc = "ErrEmptyAddrs"]
            /\ UNCHANGED notify
       ELSE IF opts.CheckTimeout <= 0
       THEN /\ ctor' = [ctor EXCEPT !.pc = "ErrWrongCheckTimeout"]
            /\ UNCHANGED notify
       ELSE /\ ctor' = [ctor EXCEPT !.pc = "warmUp", !.i = 1]
            /\ notify' = [buf |-> <<>>, cap |-> NotifyPerAddr * Len(addrs)]
    /\ last' = NoCall
    /\ UNCHANGED <<opts, addrs, pool, fallback, state, control, mutex, chk,
                   iter, conns, up, nodes, env, watch, sideVars>>

\* warmUp, one turn of its loop: dial addrs[i] and record the connection.
warmUp ==
    /\ ctor.pc = "warmUp"
    /\ ctor.i <= Len(addrs)
    /\ Len(conns) < MaxConns
    /\ LET addr == addrs[ctor.i]
       IN \E o \in DialOutcomes(addr), conn \in {Nil} \cup ConnId :
            /\ Dialed(addr, o, conn)
            /\ notify' = DialEvents(notify, o, conn)
            /\ IF conn # Nil
               THEN /\ fallback' = IF fallback = Nil THEN conn ELSE fallback
                    /\ pool' = [pool EXCEPT ![addr] = conn]
                    /\ ctor' = [ctor EXCEPT
                                  !.i = @ + 1,
                                  !.alive = @ \/ o = "connected"]
               ELSE /\ ctor' = [ctor EXCEPT !.i = @ + 1]
                    /\ UNCHANGED <<fallback, pool>>
    /\ last' = NoCall
    /\ UNCHANGED <<opts, addrs, state, control, mutex, chk, iter, up, nodes,
                   env, watch, sideVars>>

\* Close, lines 265-277, as ConnectWithOpts calls it on a pool nobody else
\* has seen yet: the lock is taken and released within the call.
closeOwned == {pool[a] : a \in Addr} \cup {fallback}

\* ConnectWithOpts, lines 97-104: give up when warm-up found nobody alive,
\* start the checker otherwise.
Finish ==
    /\ ctor.pc = "warmUp"
    /\ ctor.i > Len(addrs)
    /\ IF ~ctor.alive
       THEN /\ control' = TRUE
            /\ state' = connClosed
            /\ conns' = CloseAll(closeOwned \ {Nil})
            /\ notify' = PushAll(notify, ClosedEvents(closeOwned \ {Nil}))
            /\ ctor' = [ctor EXCEPT !.pc = "ErrNoConnection"]
            /\ UNCHANGED chk
       ELSE /\ chk' = [ChkIdle EXCEPT !.pc = "select"]
            /\ ctor' = [ctor EXCEPT !.pc = "ok"]
            /\ UNCHANGED <<control, state, conns, notify>>
    /\ last' = NoCall
    /\ UNCHANGED <<opts, addrs, pool, fallback, mutex, iter, up, nodes, env,
                   watch, sideVars>>

\* ------------------------------------------------------------- environment

\* A step outside the checker ends the moment at which the checker's last
\* iteration can be looked at.
IterSeen == iter' = IF iter.done THEN IterNone ELSE iter

\* The same for a step that may change what the iteration in progress finds:
\* the iteration is no longer one that ran undisturbed.
IterDisturbed ==
    iter' = IF iter.done \/ iter.branch = "none" THEN IterNone
            ELSE [iter EXCEPT !.quiet = FALSE]

\* The address whose repair is being watched.
WatchedAddr == IF watch.conn = Nil THEN NoAddr ELSE AddrOf(watch.conn)

\* The watch ends when something else happens to the watched address.
Unwatch(a) == watch' = IF a = WatchedAddr THEN WatchNone ELSE watch

EnvFrame ==
    /\ env < MaxEnv
    /\ env' = env + 1
    /\ last' = NoCall
    /\ IterDisturbed
    /\ UNCHANGED <<opts, addrs, pool, fallback, state, control, mutex, ctor,
                   chk, sideVars>>

\* A node stops accepting connections.
AddrDown(a) ==
    /\ a \in up
    /\ up' = up \ {a}
    /\ Unwatch(a)
    /\ EnvFrame
    /\ UNCHANGED <<notify, conns, nodes>>

\* A node accepts connections again.
AddrUp(a) ==
    /\ a \notin up
    /\ up' = up \cup {a}
    /\ EnvFrame
    /\ UNCHANGED <<notify, conns, nodes, watch>>

\* The cluster is reconfigured: the discovery function returns a new list.
Reconfigure(l) ==
    /\ opts.NodesGetFunctionName
    /\ l # nodes
    /\ nodes' = l
    /\ EnvFrame
    /\ UNCHANGED <<notify, conns, up, watch>>

\* A connection changes state by itself or is closed by whoever holds it,
\* and reports the event.
ConnEvent(c, from, to) ==
    /\ c \in DOMAIN conns
    /\ conns[c].st \in from
    /\ conns' = [conns EXCEPT ![c].st = to]
    /\ notify' = Push(notify, c)
    /\ EnvFrame
    /\ UNCHANGED <<up, nodes>>

\* The transport breaks; the connection starts reconnecting.
ConnLost(c) ==
    /\ ConnEvent(c, {"connected"}, "disconnected")
    /\ Unwatch(AddrOf(c))

\* A reconnecting connection reaches its node again.
ConnBack(c) ==
    /\ c \in DOMAIN conns
    /\ AddrOf(c) \in up
    /\ ConnEvent(c, {"disconnected"}, "connected")
    /\ UNCHANGED watch

\* Whether c is the connection an open pool selects, the entry of a tracked
\* address whose node is up.
Selected(c) ==
    /\ ctor.pc = "ok"
    /\ state = connConnected
    /\ getCurrentConnection.conn = c
    /\ pool[AddrOf(c)] = c
    /\ AddrOf(c) \in Range(addrs)
    /\ AddrOf(c) \in up

\* No other connection to the address of c has lost its transport and is
\* still reconnecting.
LinksUp(c) ==
    \A k \in DOMAIN conns \ {c} :
        AddrOf(k) = AddrOf(c) => conns[k].st # "disconnected"

\* Connection.Close called from outside the pool, or the connection gives up
\* reconnecting.
ConnClose(c) ==
    /\ ConnEvent(c, {"connected", "disconnected"}, "closed")
    /\ IF Selected(c) /\ LinksUp(c)
       THEN watch' = [conn |-> c, ticks |-> 0]
       ELSE Unwatch(AddrOf(c))

\* The same events of a connection with no bound on their number (a
\* connection may lose and find its node again and again); what is queued
\* of them is bounded by the channel.
Emit(c, from, to) ==
    /\ c \in DOMAIN conns
    /\ conns[c].st \in from
    /\ conns' = [conns EXCEPT ![c].st = to]
    /\ notify' = Push(notify, c)
    /\ last' = NoCall
    /\ IterDisturbed
    /\ UNCHANGED <<opts, addrs, pool, fallback, state, control, mutex, ctor,
                   chk, up, nodes, env, sideVars>>

TransportLost(c) ==
    /\ Emit(c, {"connected"}, "disconnected")
    /\ Unwatch(AddrOf(c))

TransportBack(c) ==
    /\ c \in DOMAIN conns
    /\ AddrOf(c) \in up
    /\ Emit(c, {"disconnected"}, "connected")
    /\ UNCHANGED watch

Hangup(c) ==
    /\ Emit(c, {"connected", "disconnected"}, "closed")
    /\ Unwatch(AddrOf(c))

\* ------------------------------------------------------------------ callers

CallerFrame ==
    /\ ctor.pc = "ok"
    /\ mutex = "none"
    /\ IterSeen
    /\ UNCHANGED <<opts, addrs, pool, state, control, notify, mutex, ctor,
                   chk, conns, up, nodes, env, watch, sideVars>>

\* Any delegated operation (Ping, Select, Call, ..., Do with a request that
\* is bound to no connection): it runs on the connection
\* getCurrentConnection returns.
Delegate ==
    /\ CallerFrame
    /\ LET g == getCurrentConnection
       IN /\ fallback' = g.fallback
          /\ last' = [NoCall EXCEPT !.op = "delegate", !.conn = g.conn,
                                     !.fallback0 = fallback]

\* ConnectionMulti.Do, line 525: whether the request bound to connection x
\* is taken to belong to the pool.
doBelongs(x) == getConnectionFromPool(AddrOf(x)).ok

\* ConnectionMulti.Do with a request bound to connection x: forwarded to x,
\* or answered with a failed future.
DoBound(x) ==
    /\ CallerFrame
    /\ x \in DOMAIN conns
    /\ last' = IF doBelongs(x)
               THEN [NoCall EXCEPT !.op = "do", !.conn = x, !.bound = x,
                                   !.fallback0 = fallback]
               ELSE [NoCall EXCEPT !.op = "do", !.bound = x, !.failed = TRUE,
                                   !.fallback0 = fallback]
    /\ UNCHANGED fallback

\* ConnectionMulti.ConnectedNow, lines 255-257: the value it returns in this
\* state.  The selection is made only when the state is read as connected.
connMultiConnectedNow ==
    /\ state = connConnected
    /\ ConnectedNow(getCurrentConnection.conn)

\* Close, lines 262-279, called a second time: close(control) on the channel
\* that is closed already panics, the lock is never released.  Not modelled;
\* Close is called once.

\* A Close that takes the lock and closes control but stores no state.
CloseBeginKeepsState ==
    /\ ctor.pc = "ok"
    /\ ~control
    /\ mutex = "none"
    /\ mutex' = "Close"
    /\ control' = TRUE
    /\ UNCHANGED state
    /\ last' = NoCall
    /\ watch' = WatchNone
    /\ IterSeen
    /\ UNCHANGED <<opts, addrs, pool, fallback, notify, ctor, chk, conns, up,
                   nodes, env, sideVars>>

\* Close, lines 262-266: take the lock, close control, store the state.
CloseBegin ==
    /\ ctor.pc = "ok"
    /\ ~control
    /\ mutex = "none"
    /\ mutex' = "Close"
    /\ control' = TRUE
    /\ state' = connClosed
    /\ last' = NoCall
    /\ watch' = WatchNone
    /\ IterSeen
    /\ UNCHANGED <<opts, addrs, pool, fallback, notify, ctor, chk, conns, up,
                   nodes, env, sideVars>>

\* The orders in which a range over the pool map can visit its entries.
poolOrders ==
    LET S == {pool[a] : a \in Addr} \ {Nil}
    IN {f \in [1..Cardinality(S) -> S] :
          \A i, j \in 1..Cardinality(S) : i # j => f[i] # f[j]}

\* Close, lines 268-279: the error it returns when, of the n closes of pool
\* entries it makes first, those numbered in fails return an error: the
\* number of the close whose error is kept, 0 for nil.  The result of the
\* close of the fallback (line 276, number n + 1) is dropped.
closeErr(n, fails) ==
    IF \E i \in fails : i <= n
    THEN CHOOSE i \in fails : i <= n /\ \A j \in fails : i <= j
    ELSE 0

\* Close, lines 268-279: close the pool's connections, in the order the map
\* yields them, and then the fallback; release the lock.  Any of the closes
\* may return an error; the connection is closed all the same.
CloseEnd ==
    /\ mutex = "Close"
    /\ conns' = CloseAll(closeOwned \ {Nil})
    /\ notify' = PushAll(notify, ClosedEvents(closeOwned \ {Nil}))
    /\ mutex' = "none"
    /\ \E order \in poolOrders :
         LET calls == IF fallback # Nil THEN Append(order, fallback)
                      ELSE order
         IN \E fails \in SUBSET (1..Len(calls)) :
              last' = [NoCall EXCEPT
                         !.op = "Close", !.calls = calls, !.fails = fails,
                         !.err = closeErr(Len(order), fails),
                         !.failed = closeErr(Len(order), fails) # 0]
    /\ IterDisturbed
    /\ UNCHANGED <<opts, addrs, pool, fallback, state, control, ctor, chk,
                   up, nodes, env, watch, sideVars>>

\* ------------------------------------------------------------------ checker

\* What every checker step leaves alone.
CheckerFrame ==
    /\ last' = NoCall
    /\ UNCHANGED <<opts, state, control, mutex, ctor, up, nodes, env,
                   sideVars>>

StartIter(branch) ==
    [IterNone EXCEPT
       !.branch = branch, !.addrs0 = addrs, !.pool0 = pool,
       !.n0 = Len(conns),
       !.dead0 = {a \in Range(addrs) : pool[a] = Nil \/ ClosedNow(pool[a])}]

\* One more health check is complete.
Ticked(done) ==
    watch' = IF done /\ watch.conn # Nil /\ watch.ticks < 2
             THEN [watch EXCEPT !.ticks = @ + 1]
             ELSE watch

\* checker, lines 164-168 (and 170-171, 221-222): the loop ends once the pool
\* is closed.
CheckerExit ==
    /\ chk.pc \in {"select", "h_iter"}
    /\ state = connClosed
    /\ chk' = [ChkIdle EXCEPT !.pc = "done"]
    /\ UNCHANGED <<addrs, pool, fallback, notify, conns, iter, watch>>
    /\ CheckerFrame

\* checker, lines 169-177: take one event; a closed connection whose address
\* has a pool entry is to be redialed.
NotifyRecv ==
    /\ chk.pc = "select"
    /\ state # connClosed
    /\ notify.buf # <<>>
    /\ LET e == Head(notify.buf)
           redial == ClosedNow(e) /\ getConnectionFromPool(AddrOf(e)).ok
       IN /\ notify' = [notify EXCEPT !.buf = Tail(@)]
          /\ chk' = IF redial
                    THEN [ChkIdle EXCEPT !.pc = "n_dial", !.addr = AddrOf(e)]
                    ELSE [ChkIdle EXCEPT !.pc = "select"]
          /\ iter' = [StartIter("notify") EXCEPT !.ev = e, !.done = ~redial]
    /\ UNCHANGED <<addrs, pool, fallback, conns, watch>>
    /\ CheckerFrame

\* The checker dials chk.addr (lines 178, 199, 229) and goes on at pc.
CheckerDial(pc) ==
    /\ Len(conns) < MaxConns
    /\ \E o \in DialOutcomes(chk.addr), conn \in {Nil} \cup ConnId :
         /\ Dialed(chk.addr, o, conn)
         /\ notify' = DialEvents(notify, o, conn)
         /\ chk' = [chk EXCEPT !.pc = pc, !.conn = conn]
         /\ iter' = [iter EXCEPT
                       !.dialed = Append(@, [addr |-> chk.addr, conn |-> conn])]
    /\ UNCHANGED <<addrs, pool, fallback, watch>>
    /\ CheckerFrame

\* checker, line 178: the redial.
NotifyDial ==
    /\ chk.pc = "n_dial"
    /\ CheckerDial("n_set")

\* An install that leaves the entry alone when the dial has failed.
NotifySetKeepsEntry ==
    /\ chk.pc = "n_set"
    /\ mutex = "none"
    /\ pool' = IF chk.conn # Nil
               THEN setConnectionToPool(chk.addr, chk.conn)
               ELSE pool
    /\ chk' = [ChkIdle EXCEPT !.pc = "select"]
    /\ iter' = [iter EXCEPT !.done = TRUE]
    /\ UNCHANGED <<addrs, fallback, notify, conns, watch>>
    /\ CheckerFrame

\* checker, lines 179-183: install the new connection, or drop the entry.
NotifySet ==
    /\ chk.pc = "n_set"
    /\ mutex = "none"
    /\ pool' = IF chk.conn # Nil
               THEN setConnectionToPool(chk.addr, chk.conn)
               ELSE deleteConnectionFromPool(chk.addr)
    /\ chk' = [ChkIdle EXCEPT !.pc = "select"]
    /\ iter' = [iter EXCEPT !.done = TRUE]
    /\ UNCHANGED <<addrs, fallback, notify, conns, watch>>
    /\ CheckerFrame

\* Call17Typed(NodesGetFunctionName, {}, &resp) on connection c: an error,
\* or a reply; only a connected connection can bring a reply.  A reply is
\* the list resp: empty, or with one element, the cluster's address list
\* (which may itself be empty).
CallOutcomes(c) ==
    {[err |-> TRUE, resp |-> <<>>]} \cup
    (IF ConnectedNow(c)
     THEN {[err |-> FALSE, resp |-> r] : r \in {<<>>, <<nodes>>}}
     ELSE {})

\* A check of the reply that does not look into its first element.
usableFirstUnchecked(r) == ~r.err /\ Len(r.resp) > 0

\* checker, lines 191-194: whether the reply carries an address list to
\* apply.
usable(r) == ~r.err /\ Len(r.resp) > 0 /\ Len(r.resp[1]) > 0

\* What the discovery function answered: an error, a reply whose first
\* element is a non-empty list, or any other reply.
ReplyKind(r) ==
    IF r.err THEN "err"
    ELSE IF r.resp # <<>> /\ r.resp[1] # <<>> THEN "list"
    ELSE "empty"

\* The first index from i on of list whose address is not tracked, that is,
\* the next one the fill loop (lines 197-204) dials; Len(list) + 1 if none.
RECURSIVE nextFill(_, _)
nextFill(list, i) ==
    IF i > Len(list) THEN i
    ELSE IF indexOf(list[i], addrs) < 0 THEN i
    ELSE nextFill(list, i + 1)

FillFrom(list, i) ==
    LET j == nextFill(list, i)
    IN IF j <= Len(list)
       THEN [ChkIdle EXCEPT !.pc = "d_dial", !.addr = list[j], !.i = j,
                            !.list = list]
       ELSE [ChkIdle EXCEPT !.pc = "d_clear", !.list = list]

\* checker, lines 185-195: the discovery timer fires.  Nothing is done
\* without a function name, on an error, or on a reply without a non-empty
\* first element.
RefreshTick ==
    /\ chk.pc = "select"
    /\ state # connClosed
    /\ IF ~opts.NodesGetFunctionName
       THEN /\ chk' = [ChkIdle EXCEPT !.pc = "select"]
            /\ iter' = [StartIter("discovery") EXCEPT
                          !.resp = "nofunc", !.done = TRUE]
            /\ UNCHANGED fallback
       ELSE /\ mutex = "none"
            /\ LET g == getCurrentConnection
               IN /\ fallback' = g.fallback
                  /\ \E r \in CallOutcomes(g.conn) :
                       IF usable(r)
                       THEN /\ chk' = FillFrom(r.resp[1], 1)
                            /\ iter' = [StartIter("discovery") EXCEPT
                                          !.resp = ReplyKind(r),
                                          !.list = r.resp[1],
                                          !.calls = 1]
                       ELSE /\ chk' = [ChkIdle EXCEPT !.pc = "select"]
                            /\ iter' = [StartIter("discovery") EXCEPT
                                          !.resp = ReplyKind(r),
                                          !.calls = 1,
                                          !.done = TRUE]
    /\ UNCHANGED <<addrs, pool, notify, conns, watch>>
    /\ CheckerFrame

\* checker, line 199: dial an address that is new in the reply.
FillDial ==
    /\ chk.pc = "d_dial"
    /\ CheckerDial("d_set")

\* checker, lines 200-202: install it, and go on with the fill loop.
FillSet ==
    /\ chk.pc = "d_set"
    /\ IF chk.conn # Nil
       THEN /\ mutex = "none"
            /\ pool' = setConnectionToPool(chk.addr, chk.conn)
       ELSE UNCHANGED pool
    /\ chk' = FillFrom(chk.list, chk.i + 1)
    /\ UNCHANGED <<addrs, fallback, notify, conns, iter, watch>>
    /\ CheckerFrame

\* A clearing loop that takes every tracked address for obsolete.
obsoleteAll(list) == Range(addrs)

\* A clearing that takes no address for obsolete.
obsoleteNone(list) == {}

\* checker, lines 206-207: the tracked addresses the reply no longer holds.
obsolete(list) ==
    {addrs[i] : i \in {j \in 1..Len(addrs) : indexOf(addrs[j], list) < 0}}

\* checker, lines 206-217: close and evict the entries of the addresses the
\* reply no longer holds, then replace the tracked list.
ClearObsolete ==
    /\ chk.pc = "d_clear"
    /\ mutex = "none"
    /\ LET gone == obsolete(chk.list)
           cons == {pool[v] : v \in gone} \ {Nil}
       IN /\ conns' = CloseAll(cons)
          /\ notify' = PushAll(notify, ClosedEvents(cons))
          /\ pool' = [a \in Addr |-> IF a \in gone THEN Nil ELSE pool[a]]
          /\ iter' = [iter EXCEPT !.closed = cons, !.done = TRUE]
    /\ addrs' = chk.list
    /\ watch' = IF WatchedAddr \in Range(chk.list) THEN watch ELSE WatchNone
    /\ chk' = [ChkIdle EXCEPT !.pc = "select"]
    /\ UNCHANGED fallback
    /\ CheckerFrame

\* The checker after the health check has dealt with list[i - 1].
HealthFrom(list, i) ==
    IF i <= Len(list)
    THEN [ChkIdle EXCEPT !.pc = "h_iter", !.i = i, !.list = list]
    ELSE [ChkIdle EXCEPT !.pc = "select"]

\* checker, lines 219-220: the health-check timer fires.
TimerTick ==
    /\ chk.pc = "select"
    /\ state # connClosed
    /\ chk' = HealthFrom(addrs, 1)
    /\ iter' = [StartIter("health") EXCEPT !.done = Len(addrs) = 0]
    /\ Ticked(Len(addrs) = 0)
    /\ UNCHANGED <<addrs, pool, fallback, notify, conns>>
    /\ CheckerFrame

\* A health check that leaves every entry alone, closed or not.
healthyIfPresent(addr) == getConnectionFromPool(addr).ok

\* checker, lines 224-228: whether the health check leaves the entry of addr
\* alone.
healthy(addr) ==
    LET e == getConnectionFromPool(addr)
    IN e.ok /\ ~ClosedNow(e.conn)

\* checker, lines 221-228: one address of the health check.
HealthIter ==
    /\ chk.pc = "h_iter"
    /\ state # connClosed
    /\ LET addr == chk.list[chk.i]
           done == chk.i + 1 > Len(chk.list)
       IN IF healthy(addr)
          THEN /\ chk' = HealthFrom(chk.list, chk.i + 1)
               /\ iter' = [iter EXCEPT !.done = done]
               /\ Ticked(done)
          ELSE /\ chk' = [chk EXCEPT !.pc = "h_dial", !.addr = addr]
               /\ UNCHANGED <<iter, watch>>
    /\ UNCHANGED <<addrs, pool, fallback, notify, conns>>
    /\ CheckerFrame

\* checker, line 229: dial an address without a live entry.
HealthDial ==
    /\ chk.pc = "h_dial"
    /\ CheckerDial("h_set")

\* An install that drops the entry when the dial has failed.
HealthSetEvicts ==
    /\ chk.pc = "h_set"
    /\ mutex = "none"
    /\ pool' = IF chk.conn # Nil
               THEN setConnectionToPool(chk.addr, chk.conn)
               ELSE deleteConnectionFromPool(chk.addr)
    /\ chk' = HealthFrom(chk.list, chk.i + 1)
    /\ iter' = [iter EXCEPT !.done = chk.i + 1 > Len(chk.list)]
    /\ Ticked(chk.i + 1 > Len(chk.list))
    /\ UNCHANGED <<addrs, fallback, notify, conns>>
    /\ CheckerFrame

\* checker, lines 230-232: install the connection if there is one.
HealthSet ==
    /\ chk.pc = "h_set"
    /\ IF chk.conn # Nil
       THEN /\ mutex = "none"
            /\ pool' = setConnectionToPool(chk.addr, chk.conn)
       ELSE UNCHANGED pool
    /\ chk' = HealthFrom(chk.list, chk.i + 1)
    /\ iter' = [iter EXCEPT !.done = chk.i + 1 > Len(chk.list)]
    /\ Ticked(chk.i + 1 > Len(chk.list))
    /\ UNCHANGED <<addrs, fallback, notify, conns>>
    /\ CheckerFrame

\* ------------------------------------------------------------------ streams

NoDo == [op |-> "none", stream |-> 0, before |-> [Id |-> 0, Conn |-> Nil],
         bound |-> Nil, failed |-> FALSE, sent |-> <<>>]

\* Connect(addr, opts) of the connector package, called directly: a
\* connection outside any pool.
Connect(a) ==
    /\ Len(conns) < MaxConns
    /\ \E o \in DialOutcomes(a) \ {"nil"} :
         conns' = Append(conns, [addr |-> a, st |-> o])
    /\ sdo' = NoDo
    /\ UNCHANGED <<opts, addrs, pool, fallback, state, control, notify, mutex,
                   ctor, chk, iter, up, nodes, env, last, watch, streams,
                   beginVars, lockVars, codecVars>>

\* Connection.NewStream on connection c: a Stream with the connection's next
\* stream id.
NewStream(c) ==
    /\ Len(streams) < MaxStreams
    /\ c \in DOMAIN conns
    /\ streams' = Append(streams,
           [Id |-> 1 + Cardinality({k \in 1..Len(streams) : streams[k].Conn = c}),
            Conn |-> c])
    /\ sdo' = NoDo
    /\ UNCHANGED <<poolVars, beginVars, lockVars, codecVars>>

\* A binding check that compares the addresses of the two connections.
sameAddr(x, y) == AddrOf(x) = AddrOf(y)

\* Stream.Do, line 193: whether the connection x a request is bound to is
\* the connection y of the stream.
sameConn(x, y) == x = y

\* Stream.Do with a request bound to connection x (Nil: to none): a failed
\* future when x is another connection than the stream's, Conn.send with the
\* stream's Id otherwise.
StreamDo(s, x) ==
    /\ s \in 1..Len(streams)
    /\ x \in {Nil} \cup DOMAIN conns
    /\ LET refused == x # Nil /\ ~sameConn(x, streams[s].Conn)
       IN sdo' = [op |-> "Do", stream |-> s, before |-> streams[s],
                  bound |-> x, failed |-> refused,
                  sent |-> IF refused THEN <<>>
                           ELSE <<[conn |-> streams[s].Conn,
                                   id |-> streams[s].Id]>>]
    /\ UNCHANGED streams
    /\ UNCHANGED <<poolVars, beginVars, lockVars, codecVars>>

\* ------------------------------------------------------------ begin request

\* The isolation levels, src/stream.go lines 12-22.
DefaultIsolationLevel == 0
ReadCommittedLevel == 1
ReadConfirmedLevel == 2
BestEffortLevel == 3

TxnIsolationLevel ==
    {DefaultIsolationLevel, ReadCommittedLevel, ReadConfirmedLevel,
     BestEffortLevel}

\* time.Second, in nanoseconds, the unit of time.Duration.
Second == 1000000000

\* The durations a timeout is drawn from: around zero and around whole
\* seconds, of both signs.
Durations ==
    {sec * Second + ns : sec \in (0 - MaxSeconds)..MaxSeconds,
                         ns \in (0 - MaxNanos)..MaxNanos}

\* The keys of the body, named as in lines 47 and 59.
KeyTimeout == "KeyTimeout"
KeyTxnIsolation == "KeyTxnIsolation"

\* NewBeginRequest, lines 91-96.
NewBeginRequest == [txnIsolation |-> DefaultIsolationLevel, timeout |-> 0]

\* An encoder nothing has been written to.
EncNone == [buf |-> <<>>, err |-> FALSE, done |-> FALSE]

\* Duration.Seconds: the whole seconds and the nanoseconds beyond them that
\* the floating-point value is the sum of.
Seconds(d) == [sec |-> d \div Second, nsec |-> d % Second]

\* A test that takes every isolation level for one to be written.
hasIsolationLevelAlways(txnIsolation) == TRUE

\* fillBegin, lines 31-32.
hasTimeout(timeout) == timeout > 0
hasIsolationLevel(txnIsolation) == txnIsolation # DefaultIsolationLevel

\* fillBegin, lines 33-39.
mapLen(txnIsolation, timeout) ==
    (IF hasTimeout(timeout) THEN 1 ELSE 0)
    + (IF hasIsolationLevel(txnIsolation) THEN 1 ELSE 0)

\* fillBegin, lines 41-68: the values it hands to the encoder, in order.
beginItems(txnIsolation, timeout) ==
    <<[t |-> "maplen", v |-> mapLen(txnIsolation, timeout)]>>
    \o (IF hasTimeout(timeout)
        THEN <<[t |-> "uint", v |-> KeyTimeout],
               [t |-> "float", v |-> Seconds(timeout)]>>
        ELSE <<>>)
    \o (IF hasIsolationLevel(txnIsolation)
        THEN <<[t |-> "uint", v |-> KeyTxnIsolation],
               [t |-> "uint", v |-> txnIsolation]>>
        ELSE <<>>)

\* fillBegin, lines 30-71, when the encoder fails at its call number failAt
\* (at none when there is no such call): it returns at the first error,
\* with what was written before.
fillBegin(txnIsolation, timeout, failAt) ==
    LET items == beginItems(txnIsolation, timeout)
    IN IF failAt \in 1..Len(items)
       THEN [buf |-> SubSeq(items, 1, failAt - 1), err |-> TRUE,
             done |-> TRUE]
       ELSE [buf |-> items, err |-> FALSE, done |-> TRUE]

\* BeginRequest.TxnIsolation, lines 100-103.
TxnIsolation(txnIsolation) ==
    /\ req' = [req EXCEPT !.txnIsolation = txnIsolation]
    /\ enc' = EncNone
    /\ UNCHANGED <<poolVars, streamVars, lockVars, codecVars>>

\* BeginRequest.Timeout, lines 106-109.
Timeout(timeout) ==
    /\ req' = [req EXCEPT !.timeout = timeout]
    /\ enc' = EncNone
    /\ UNCHANGED <<poolVars, streamVars, lockVars, codecVars>>

\* BeginRequest.Body, lines 112-114, into an empty encoder.
Body ==
    /\ \E failAt \in 0..MaxItems :
         enc' = fillBegin(req.txnIsolation, req.timeout, failAt)
    /\ UNCHANGED <<req, poolVars, streamVars, lockVars, codecVars>>

\* ---------------------------------------------------------- lock discipline

\* The goroutines: the one that constructs the pool, the checker it starts,
\* and two that use the pool.
Callers == {"c1", "c2"}
Thread == {"ctor", "checker"} \cup Callers

\* One step of a program: op is what it does, f the field of connMulti it
\* touches, line its place in the source.  "read" and "write" are plain
\* accesses, "atomic" goes through sync/atomic, "chan" is a channel
\* operation, "dial" is a call of tarantool.Connect.
Ins(op, f, line) == [op |-> op, f |-> f, line |-> line]

\* getConnectionFromPool, lines 138-143.
getFromPoolProg ==
    <<Ins("RLock", "mutex", 139), Ins("read", "pool", 141),
      Ins("RUnlock", "mutex", 140)>>

\* setConnectionToPool, lines 145-149.
setToPoolProg ==
    <<Ins("Lock", "mutex", 146), Ins("write", "pool", 148),
      Ins("Unlock", "mutex", 147)>>

\* deleteConnectionFromPool, lines 151-155.
deleteFromPoolProg ==
    <<Ins("Lock", "mutex", 152), Ins("write", "pool", 154),
      Ins("Unlock", "mutex", 153)>>

\* getCurrentConnection, lines 238-252, on the path that finds an entry that
\* is not connected and returns the fallback.
getCurrentProg ==
    <<Ins("RLock", "mutex", 239), Ins("read", "addrs", 242),
      Ins("read", "pool", 243), Ins("write", "fallback", 248),
      Ins("read", "fallback", 251), Ins("RUnlock", "mutex", 240)>>

\* One turn of the loop of warmUp, lines 118-130, for a dial that succeeds.
warmUpProg ==
    <<Ins("read", "addrs", 118), Ins("dial", "-", 119),
      Ins("read", "fallback", 122), Ins("write", "fallback", 123),
      Ins("write", "pool", 125)>>

\* A Close that returns with the lock held.
CloseProgKeepsLock ==
    <<Ins("Lock", "mutex", 262), Ins("chan", "control", 265),
      Ins("atomic", "state", 266), Ins("read", "pool", 268),
      Ins("read", "fallback", 275)>>

\* Close, lines 261-280.
CloseProg ==
    <<Ins("Lock", "mutex", 262), Ins("chan", "control", 265),
      Ins("atomic", "state", 266), Ins("read", "pool", 268),
      Ins("read", "fallback", 275), Ins("Unlock", "mutex", 263)>>

\* The notify case of the checker, lines 169-184, for a closed connection
\* whose address has an entry: the dial succeeds, or it fails.
notifyProg ==
    <<Ins("chan", "notify", 169), Ins("atomic", "state", 170)>>
    \o getFromPoolProg \o <<Ins("dial", "-", 178)>> \o setToPoolProg

notifyFailProg ==
    <<Ins("chan", "notify", 169), Ins("atomic", "state", 170)>>
    \o getFromPoolProg \o <<Ins("dial", "-", 178)>> \o deleteFromPoolProg

\* The discovery case, lines 185-218, for a list with one new address and
\* one obsolete address; the call of line 190 selects its connection with
\* getCurrentConnection.
discoveryProg ==
    <<Ins("atomic", "state", 186)>> \o getCurrentProg
    \o <<Ins("read", "addrs", 198), Ins("dial", "-", 199)>> \o setToPoolProg
    \o <<Ins("read", "addrs", 206)>> \o getFromPoolProg \o deleteFromPoolProg
    \o <<Ins("Lock", "mutex", 215), Ins("write", "addrs", 216),
         Ins("Unlock", "mutex", 217)>>

\* A health check that dials with the lock held for the install.
healthProgLocked ==
    <<Ins("read", "addrs", 220), Ins("atomic", "state", 221)>> \o getFromPoolProg
    \o <<Ins("Lock", "mutex", 146), Ins("dial", "-", 229),
         Ins("write", "pool", 148), Ins("Unlock", "mutex", 147)>>

\* One turn of the loop of the timer case, lines 220-233, for an address
\* that is dialed, with success.
healthProg ==
    <<Ins("read", "addrs", 220), Ins("atomic", "state", 221)>> \o getFromPoolProg
    \o <<Ins("dial", "-", 229)>> \o setToPoolProg

Prog(name) ==
    CASE name = "warmUp" -> warmUpProg
      [] name = "Close" -> CloseProg
      [] name = "getCurrentConnection" -> getCurrentProg
      [] name = "getConnectionFromPool" -> getFromPoolProg
      [] name = "notify" -> notifyProg
      [] name = "notifyFail" -> notifyFailProg
      [] name = "discovery" -> discoveryProg
      [] name = "health" -> healthProg
      [] OTHER -> <<>>

\* What each goroutine runs: the constructor warms up and closes the pool
\* it gives up (line 99); the checker runs its three cases; a caller
\* selects a connection (any request, ConnectedNow), looks up the
\* connection a request is bound to (Do), or closes the pool.
Programs(t) ==
    CASE t = "ctor" -> {"warmUp", "Close"}
      [] t = "checker" -> {"notify", "notifyFail", "discovery", "health"}
      [] OTHER -> {"getCurrentConnection", "getConnectionFromPool", "Close"}

\* A goroutine that does not exist (yet, or any more), one between two
\* programs, one that has closed the pool.
ThrOff == [prog |-> "off", pc |-> 0, dialing |-> FALSE]
ThrIdle == [prog |-> "idle", pc |-> 0, dialing |-> FALSE]
ThrDone == [prog |-> "done", pc |-> 0, dialing |-> FALSE]

ThrInit == [t \in Thread |-> IF t = "ctor" THEN ThrIdle ELSE ThrOff]

\* sync.RWMutex: the writer, the readers, and the writers waiting in Lock,
\* which keep new readers out.
RwFree == [w |-> "none", r |-> {}, pending |-> {}]

Running(t) == thr[t].pc > 0

\* The step goroutine t is at.
Cur(t) == Prog(thr[t].prog)[thr[t].pc]

At(t, ops) == Running(t) /\ Cur(t).op \in ops

\* Goroutine t has made its step; after its last step Close has returned
\* and the goroutine uses the pool no more.
Advance(t) ==
    IF thr[t].pc < Len(Prog(thr[t].prog))
    THEN [thr EXCEPT ![t].pc = @ + 1, ![t].dialing = FALSE]
    ELSE [thr EXCEPT ![t] = IF thr[t].prog = "Close" THEN ThrDone ELSE ThrIdle]

\* Close has gone past its step on field f (line 265, line 266).
Passed(f) ==
    \E t \in Thread :
      \/ thr[t] = ThrDone
      \/ /\ thr[t].prog = "Close"
         /\ \E i \in 1..(thr[t].pc - 1) : CloseProg[i].f = f

LockFrame == UNCHANGED <<poolVars, streamVars, beginVars, codecVars>>

\* A goroutine between two programs starts one.  Close is called once; the
\* checker goes into its select only while the pool is not closed (line
\* 164).
Begin(t, p) ==
    /\ thr[t] = ThrIdle
    /\ p \in Programs(t)
    /\ t = "checker" => ~Passed("state")
    /\ p = "Close" => \A u \in Thread : thr[u].prog \notin {"Close", "done"}
    /\ thr' = [thr EXCEPT ![t] = [prog |-> p, pc |-> 1, dialing |-> FALSE]]
    /\ UNCHANGED rw
    /\ LockFrame

\* ConnectWithOpts, line 102 and line 104: the checker is started and the
\* pool is handed to its users.
Go ==
    /\ thr["ctor"] = ThrIdle
    /\ thr' = [t \in Thread |-> IF t = "ctor" THEN ThrOff ELSE ThrIdle]
    /\ UNCHANGED rw
    /\ LockFrame

\* mutex.RLock: blocks while there is a writer or one is waiting.
RLock(t) ==
    /\ At(t, {"RLock"})
    /\ rw.w = "none" /\ rw.pending = {}
    /\ rw' = [rw EXCEPT !.r = @ \cup {t}]
    /\ thr' = Advance(t)
    /\ LockFrame

\* mutex.RUnlock.
RUnlock(t) ==
    /\ At(t, {"RUnlock"})
    /\ rw' = [rw EXCEPT !.r = @ \ {t}]
    /\ thr' = Advance(t)
    /\ LockFrame

\* mutex.Lock is called: from now on no new reader gets in.
LockCall(t) ==
    /\ At(t, {"Lock"})
    /\ t \notin rw.pending
    /\ rw' = [rw EXCEPT !.pending = @ \cup {t}]
    /\ UNCHANGED thr
    /\ LockFrame

\* mutex.Lock returns: there is no writer and no reader.
Lock(t) ==
    /\ At(t, {"Lock"})
    /\ t \in rw.pending
    /\ rw.w = "none" /\ rw.r = {}
    /\ rw' = [rw EXCEPT !.w = t, !.pending = @ \ {t}]
    /\ thr' = Advance(t)
    /\ LockFrame

\* mutex.Unlock.
Unlock(t) ==
    /\ At(t, {"Unlock"})
    /\ rw' = [rw EXCEPT !.w = "none"]
    /\ thr' = Advance(t)
    /\ LockFrame

\* A read or a write of a field, a channel operation.
Access(t) ==
    /\ At(t, {"read", "write", "chan"})
    /\ thr' = Advance(t)
    /\ UNCHANGED rw
    /\ LockFrame

\* atomic.StoreUint32 in Close (line 266); getState in the checker (lines
\* 170, 186, 221), which returns or gives the branch up when the pool is
\* closed.
Atomic(t) ==
    /\ At(t, {"atomic"})
    /\ thr' = IF t = "checker" /\ Passed("state")
              THEN [thr EXCEPT ![t] = IF thr[t].prog = "discovery"
                                      THEN ThrIdle ELSE ThrOff]
              ELSE Advance(t)
    /\ UNCHANGED rw
    /\ LockFrame

\* tarantool.Connect is called, and returns.
DialCall(t) ==
    /\ At(t, {"dial"})
    /\ ~thr[t].dialing
    /\ thr' = [thr EXCEPT ![t].dialing = TRUE]
    /\ UNCHANGED rw
    /\ LockFrame

DialReturn(t) ==
    /\ At(t, {"dial"})
    /\ thr[t].dialing
    /\ thr' = Advance(t)
    /\ UNCHANGED rw
    /\ LockFrame

\* The checker between two iterations finds the pool closed (line 164) or
\* the control channel closed (line 167), and returns.
CheckerReturn ==
    /\ thr["checker"] = ThrIdle
    /\ Passed("control")
    /\ thr' = [thr EXCEPT !["checker"] = ThrOff]
    /\ UNCHANGED rw
    /\ LockFrame

\* -------------------------------------------------------------- msgpack

\* The values of a byte.
MaxByte == 255
Byte == 0..MaxByte

\* The codes of gopkg.in/vmihailenco/msgpack.v2/codes that msgpack.go uses.
PosFixedNumHigh == 127
NegFixedNumLow == 224
Uint8 == 204
Uint16 == 205
Uint32 == 206
Uint64 == 207
FixedMapLow == 128
FixedMapHigh == 143
Map16 == 222
Map32 == 223
FixedArrayLow == 144
FixedArrayHigh == 159
Array16 == 220
Array32 == 221
FixedStrLow == 160
FixedStrHigh == 191
Str8 == 217
Str16 == 218
Str32 == 219

\* codes.IsFixedNum: the fixed numbers, positive and negative.
IsFixedNum(c) == c <= PosFixedNumHigh \/ c >= NegFixedNumLow

\* codes.IsFixedMap, codes.IsFixedArray, codes.IsFixedString.
IsFixedMap(c) == c >= FixedMapLow /\ c <= FixedMapHigh
IsFixedArray(c) == c >= FixedArrayLow /\ c <= FixedArrayHigh
IsFixedString(c) == c >= FixedStrLow /\ c <= FixedStrHigh

\* msgpack.go, lines 21-25.
msgpackIsUint(c) ==
    c = Uint8 \/ c = Uint16 \/ c = Uint32 \/ c = Uint64 \/ IsFixedNum(c)

\* msgpack.go, lines 27-29.
msgpackIsMap(c) == c = Map16 \/ c = Map32 \/ IsFixedMap(c)

\* msgpack.go, lines 31-34.
msgpackIsArray(c) == c = Array16 \/ c = Array32 \/ IsFixedArray(c)

\* msgpack.go, lines 36-39.
msgpackIsString(c) ==
    IsFixedString(c) \/ c = Str8 \/ c = Str16 \/ c = Str32

\* No classifier has been asked.
ClsNone == [done |-> FALSE, uint |-> FALSE, map |-> FALSE, array |-> FALSE,
            string |-> FALSE]

\* The four classifiers are applied to the byte.
Classify ==
    /\ ~cls.done
    /\ cls' = [done |-> TRUE, uint |-> msgpackIsUint(code),
               map |-> msgpackIsMap(code), array |-> msgpackIsArray(code),
               string |-> msgpackIsString(code)]
    /\ UNCHANGED <<code, poolVars, streamVars, beginVars, lockVars>>

\* The next byte is read.
NextCode(c) ==
    /\ cls.done
    /\ code' = c
    /\ cls' = ClsNone
    /\ UNCHANGED <<poolVars, streamVars, beginVars, lockVars>>

\* ---------------------------------------------------------- specification

InitWith(lists, options, ups) ==
    /\ opts \in options
    /\ addrs \in lists
    /\ pool = [a \in Addr |-> Nil]
    /\ fallback = Nil
    /\ state = connConnected
    /\ control = FALSE
    /\ notify = [buf |-> <<>>, cap |-> 0]
    /\ mutex = "none"
    /\ ctor = [pc |-> "new", i |-> 0, alive |-> FALSE]
    /\ chk = ChkIdle
    /\ iter = IterNone
    /\ conns = <<>>
    /\ up \in ups
    /\ nodes = IF opts.NodesGetFunctionName THEN addrs ELSE <<>>
    /\ env = 0
    /\ last = NoCall
    /\ watch = WatchNone
    /\ streams = <<>>
    /\ sdo = NoDo
    /\ req = NewBeginRequest
    /\ enc = EncNone
    /\ thr = ThrInit
    /\ rw = RwFree
    /\ code = 0
    /\ cls = ClsNone

Environment ==
    \/ \E a \in Addr : AddrDown(a)
    \/ \E a \in Addr : AddrUp(a)
    \/ \E l \in AddrLists(0, MaxList) : Reconfigure(l)
    \/ \E c \in ConnId : ConnLost(c)
    \/ \E c \in ConnId : ConnBack(c)
    \/ \E c \in ConnId : ConnClose(c)

\* The pool from ConnectWithOpts to Close: valid options, every address list
\* up to the order of first appearance of its addresses.
Init ==
    InitWith({l \in AddrLists(1, MaxList) :
                 /\ l[1] = "A"
                 /\ \A i \in 1..Len(l) : l[i] \in {"A", "B"}},
             [CheckTimeout : {1}, NodesGetFunctionName : BOOLEAN],
             {Addr})

Next ==
    \/ Validate
    \/ warmUp
    \/ Finish
    \/ Environment
    \/ Delegate
    \/ \E x \in ConnId : DoBound(x)
    \/ CloseBegin
    \/ CloseEnd
    \/ CheckerExit
    \/ NotifyRecv
    \/ NotifyDial
    \/ NotifySet
    \/ RefreshTick
    \/ FillDial
    \/ FillSet
    \/ ClearObsolete
    \/ TimerTick
    \/ HealthIter
    \/ HealthDial
    \/ HealthSet

Spec == Init /\ [][Next]_vars

\* ConnectWithOpts with every argument list, valid or not, up to the first
\* operations on the pool it returns.
InitCtor ==
    InitWith(AddrLists(0, MaxAddrs),
             [CheckTimeout : {0, 1}, NodesGetFunctionName : {FALSE}],
             SUBSET Addr)

NextCtor ==
    \/ Validate
    \/ warmUp
    \/ Finish
    \/ \E a \in Addr : AddrDown(a)
    \/ \E a \in Addr : AddrUp(a)
    \/ \E c \in ConnId : ConnLost(c)
    \/ \E c \in ConnId : ConnBack(c)
    \/ \E c \in ConnId : ConnClose(c)
    \/ Delegate

SpecCtor == InitCtor /\ [][NextCtor]_vars

\* Streams on connections dialed directly; no pool is constructed.
InitStream ==
    InitWith({<<"A">>}, [CheckTimeout : {1}, NodesGetFunctionName : {FALSE}],
             {{"A"}, {"A", "B"}})

NextStream ==
    \/ \E a \in Addr : Connect(a)
    \/ \E c \in ConnId : NewStream(c)
    \/ \E k \in 1..MaxStreams, x \in {Nil} \cup ConnId : StreamDo(k, x)

SpecStream == InitStream /\ [][NextStream]_vars

\* Begin requests built and encoded; no pool is constructed.
InitBegin ==
    InitWith({<<"A">>}, [CheckTimeout : {1}, NodesGetFunctionName : {FALSE}],
             {Addr})

NextBegin ==
    \/ \E l \in TxnIsolationLevel : TxnIsolation(l)
    \/ \E d \in Durations : Timeout(d)
    \/ Body

SpecBegin == InitBegin /\ [][NextBegin]_vars

\* The goroutines of one pool and its lock, step by step.
InitLock ==
    InitWith({<<"A">>}, [CheckTimeout : {1}, NodesGetFunctionName : {FALSE}],
             {Addr})

NextLock ==
    \/ Go
    \/ CheckerReturn
    \/ \E t \in Thread :
         \/ \E p \in Programs(t) : Begin(t, p)
         \/ RLock(t)
         \/ RUnlock(t)
         \/ LockCall(t)
         \/ Lock(t)
         \/ Unlock(t)
         \/ Access(t)
         \/ Atomic(t)
         \/ DialCall(t)
         \/ DialReturn(t)

SpecLock == InitLock /\ [][NextLock]_vars

\* A goroutine inside a program makes its next step.
Step(t) ==
    \/ RLock(t)
    \/ RUnlock(t)
    \/ LockCall(t)
    \/ Lock(t)
    \/ Unlock(t)
    \/ Access(t)
    \/ Atomic(t)
    \/ DialCall(t)
    \/ DialReturn(t)

\* Fair scheduling: a goroutine that can go on does, a dial returns, and the
\* checker between two iterations sees that the pool is closed.
FairLock ==
    /\ SpecLock
    /\ \A t \in Thread : WF_vars(Step(t))
    /\ WF_vars(CheckerReturn)

\* A pool of one address, its connections reporting events at any rate, and
\* the checker receiving them, redialing and checking health.
InitNotify ==
    InitWith({<<"A">>}, [CheckTimeout : {1}, NodesGetFunctionName : {FALSE}],
             {Addr})

NextNotify ==
    \/ Validate
    \/ warmUp
    \/ Finish
    \/ \E c \in ConnId : TransportLost(c)
    \/ \E c \in ConnId : TransportBack(c)
    \/ \E c \in ConnId : Hangup(c)
    \/ NotifyRecv
    \/ NotifyDial
    \/ NotifySet
    \/ TimerTick
    \/ HealthIter
    \/ HealthDial
    \/ HealthSet

SpecNotify == InitNotify /\ [][NextNotify]_vars

\* The classifiers applied to every leading byte.
InitCodec ==
    InitWith({<<"A">>}, [CheckTimeout : {1}, NodesGetFunctionName : {FALSE}],
             {Addr})

NextCodec ==
    \/ Classify
    \/ \E c \in Byte : NextCode(c)

SpecCodec == InitCodec /\ [][NextCodec]_vars

\* The pool from ConnectWithOpts to Close with discovery configured, for the
\* empty address list and for a list of one address.
InitTracked ==
    InitWith(AddrLists(0, 1), [CheckTimeout : {1}, NodesGetFunctionName : {TRUE}],
             {Addr})

SpecTracked == InitTracked /\ [][Next]_vars

\* ------------------------------------------------------------------ claims

\* ConnectWithOpts has returned.
Returned == ctor.pc \notin {"new", "warmUp"}

ValidArgs == Len(addrs) > 0 /\ opts.CheckTimeout > 0

\* C1: when ConnectWithOpts is called with a non-empty list and a positive
\* CheckTimeout, and one of the addresses is reachable, it returns a pool,
\* and a selection made on it before anything changes in the environment
\* returns a connected connection.
C1_ReachableAddressGivesConnectedPool ==
    (/\ Returned
     /\ ValidArgs
     /\ env = 0
     /\ \E a \in Range(addrs) : a \in up)
    => /\ ctor.pc = "ok"
       /\ getCurrentConnection.conn # Nil
       /\ ConnectedNow(getCurrentConnection.conn)
       /\ last.op = "delegate" => ConnectedNow(last.conn)

\* C1 witness: a pool was returned although the first address is down and
\* holds a connection that is not connected; the selection just made
\* returned a connected one.
C1_Witness ==
    /\ ctor.pc = "ok"
    /\ env = 0
    /\ Len(addrs) > 1
    /\ addrs[1] \notin up
    /\ pool[addrs[1]] # Nil
    /\ last.op = "delegate"
    /\ ConnectedNow(last.conn)

\* C2: with an empty address list or a CheckTimeout that is not positive,
\* ConnectWithOpts returns a configuration error and no pool, dials nothing
\* and does not start the checker.
C2_BadArgsGiveConfigError ==
    (Len(addrs) = 0 \/ opts.CheckTimeout <= 0)
    => /\ ctor.pc \in {"new", "ErrEmptyAddrs", "ErrWrongCheckTimeout"}
       /\ conns = <<>>
       /\ pool = [a \in Addr |-> Nil]
       /\ fallback = Nil
       /\ chk.pc = "idle"

\* C2 witness: the call was refused for its CheckTimeout alone, with
\* reachable addresses in the list.
C2_Witness ==
    /\ ctor.pc = "ErrWrongCheckTimeout"
    /\ Len(addrs) > 0
    /\ Range(addrs) \subseteq up

\* C3: when warm-up finds no connected connection, ConnectWithOpts returns
\* ErrNoConnection, the checker is not started and every connection warm-up
\* dialed is closed.
C3_NoConnectionLeavesNothingOpen ==
    (Returned /\ ValidArgs /\ ~ctor.alive)
    => /\ ctor.pc = "ErrNoConnection"
       /\ chk.pc = "idle"
       /\ \A c \in DOMAIN conns : ClosedNow(c)

\* The index in the tracked list of the first address whose pool entry is
\* connected, 0 if there is none.
FirstConnected ==
    LET I == {i \in 1..Len(addrs) :
                 pool[addrs[i]] # Nil /\ ConnectedNow(pool[addrs[i]])}
    IN IF I = {} THEN 0 ELSE CHOOSE i \in I : \A j \in I : i <= j

\* The pool entry of the last tracked address that has one, fb if none has.
LastEntry(fb) ==
    LET I == {i \in 1..Len(addrs) : pool[addrs[i]] # Nil}
    IN IF I = {} THEN fb
       ELSE pool[addrs[CHOOSE i \in I : \A j \in I : j <= i]]

\* C4: when some tracked address has a connected pool entry, a selection
\* returns the entry of the first such address in the order of the tracked
\* list.
C4_SelectionReturnsFirstConnected ==
    (last.op = "delegate" /\ FirstConnected # 0)
    => last.conn = pool[addrs[FirstConnected]]

\* C4 witness: two tracked addresses with two different connected entries,
\* and the selection just made returned the first.
C4_Witness ==
    /\ last.op = "delegate"
    /\ Len(addrs) = 2
    /\ pool[addrs[1]] # Nil
    /\ pool[addrs[2]] # Nil
    /\ pool[addrs[1]] # pool[addrs[2]]
    /\ ConnectedNow(pool[addrs[1]])
    /\ ConnectedNow(pool[addrs[2]])
    /\ last.conn = pool[addrs[1]]

\* The checker is in the middle of a dial.
CheckerDialing == chk.pc \in {"n_dial", "d_dial", "h_dial"}

\* C5: on a constructed pool a selection never returns nil; when no tracked
\* entry is connected it sets the fallback to the last non-nil entry in
\* tracked order (keeping the fallback if there is none) and returns it; and
\* a selection can be made while the checker dials.
C5_SelectionFallsBack ==
    /\ ctor.pc = "ok" => getCurrentConnection.conn # Nil
    /\ last.op = "delegate" => last.conn # Nil
    /\ (last.op = "delegate" /\ FirstConnected = 0)
       => /\ fallback = LastEntry(last.fallback0)
          /\ last.conn = fallback
    /\ (ctor.pc = "ok" /\ CheckerDialing /\ mutex # "Close")
       => ENABLED Delegate

\* C5 witness: no tracked entry is connected, and the selection just made
\* moved the fallback to another connection, which it returned.
C5_Witness ==
    /\ last.op = "delegate"
    /\ FirstConnected = 0
    /\ last.fallback0 # fallback
    /\ last.conn = fallback
    /\ ~ConnectedNow(fallback)

\* C6: Do with a request bound to connection x forwards the request exactly
\* when x itself is an entry of the pool map, and otherwise returns a failed
\* future without sending anything.
C6_BoundRequestNeedsItsConnectionInPool ==
    (last.op = "do" /\ last.bound # Nil)
    => /\ ~last.failed <=> \E a \in Addr : pool[a] = last.bound
       /\ last.failed => last.conn = Nil
       /\ ~last.failed => last.conn = last.bound

\* C7: Stream.Do with a request bound to another connection than the
\* stream's returns a failed future and sends nothing; with a request that
\* is unbound or bound to the stream's connection it sends once, on that
\* connection and under the stream's Id; the stream is left as it was.
C7_StreamDoChecksBinding ==
    sdo.op = "Do"
    => /\ streams[sdo.stream] = sdo.before
       /\ IF sdo.bound # Nil /\ sdo.bound # sdo.before.Conn
          THEN sdo.failed /\ sdo.sent = <<>>
          ELSE /\ ~sdo.failed
               /\ sdo.sent = <<[conn |-> sdo.before.Conn,
                                id |-> sdo.before.Id]>>

\* C7 witness: a request bound to another connection to the same address was
\* refused by the second stream of its connection.
C7_Witness ==
    /\ sdo.op = "Do"
    /\ sdo.bound # Nil
    /\ sdo.bound # sdo.before.Conn
    /\ AddrOf(sdo.bound) = AddrOf(sdo.before.Conn)
    /\ sdo.before.Id = 2
    /\ sdo.failed

\* C8: two completed health checks after the selected connection was closed
\* from outside (the pool open, its address tracked, its node up and no
\* other connection to it losing its transport, at the closure and all the
\* while) the pool holds another, connected connection for the address, and
\* a selection returns a connected connection.
C8_ClosedSelectionIsRedialed ==
    (watch.conn # Nil /\ watch.ticks >= 2)
    => /\ pool[WatchedAddr] # Nil
       /\ pool[WatchedAddr] # watch.conn
       /\ ConnectedNow(pool[WatchedAddr])
       /\ ConnectedNow(getCurrentConnection.conn)

\* C8 witness: the second health check after the closure is complete.
C8_Witness ==
    /\ watch.conn # Nil
    /\ watch.ticks = 2
    /\ ClosedNow(watch.conn)
    /\ pool[WatchedAddr] # watch.conn

\* The checker has just completed a discovery iteration.
DiscoveryDone == iter.branch = "discovery" /\ iter.done

\* C9: a discovery tick that gets a list and whose dials all succeed, on a
\* pool that is not closed, leaves the reply as the tracked list; every
\* address that left the list has no entry and its connection was closed;
\* every address new in the list has a freshly dialed entry; every address
\* that stayed keeps its entry, which was neither closed nor redialed.
C9_DiscoveryReconciles ==
    (/\ DiscoveryDone
     /\ iter.resp = "list"
     /\ state = connConnected
     /\ \A k \in 1..Len(iter.dialed) : iter.dialed[k].conn # Nil)
    => /\ addrs = iter.list
       /\ \A a \in Range(iter.addrs0) \ Range(iter.list) :
            /\ pool[a] = Nil
            /\ iter.pool0[a] # Nil
               => iter.pool0[a] \in iter.closed /\ ClosedNow(iter.pool0[a])
       /\ \A a \in Range(iter.list) \ Range(iter.addrs0) :
            /\ pool[a] # Nil
            /\ pool[a] > iter.n0
            /\ AddrOf(pool[a]) = a
       /\ \A a \in Range(iter.list) \cap Range(iter.addrs0) :
            /\ pool[a] = iter.pool0[a]
            /\ pool[a] \notin iter.closed
            /\ \A k \in 1..Len(iter.dialed) : iter.dialed[k].addr # a

\* C9 witness: tracked list [A, B], reply [B, C], both entries present
\* before the tick.
C9_Witness ==
    /\ DiscoveryDone
    /\ state = connConnected
    /\ iter.addrs0 = <<"A", "B">>
    /\ iter.list = <<"B", "C">>
    /\ iter.pool0["A"] # Nil
    /\ iter.pool0["B"] # Nil
    /\ addrs = <<"B", "C">>
    /\ pool["C"] # Nil

\* C10: a discovery tick without a function name, with a failed call or
\* with a reply that has no non-empty first element leaves the tracked list
\* and the pool map as they were, dials and closes nothing, and calls the
\* function at most once before the checker waits again.
C10_FailedDiscoveryChangesNothing ==
    (DiscoveryDone /\ iter.resp \in {"nofunc", "err", "empty"})
    => /\ addrs = iter.addrs0
       /\ pool = iter.pool0
       /\ iter.dialed = <<>>
       /\ iter.closed = {}
       /\ Len(conns) = iter.n0
       /\ iter.calls = IF iter.resp = "nofunc" THEN 0 ELSE 1
       /\ chk.pc = "select"

\* C10 witness: the function answered with an empty first element on a pool
\* with two entries.
C10_Witness ==
    /\ DiscoveryDone
    /\ iter.resp = "empty"
    /\ nodes = <<>>
    /\ Cardinality({a \in Addr : pool[a] # Nil}) = 2

\* Close has returned to its caller.
CloseReturned == ctor.pc = "ok" /\ state = connClosed /\ mutex = "none"

\* This step is a dial by the checker (lines 178, 199, 229).
CheckerDials ==
    /\ chk.pc \in {"n_dial", "d_dial", "h_dial"}
    /\ chk'.pc # chk.pc

\* This step puts a connection into the pool map.
Installs == \E a \in Addr : pool'[a] # pool[a] /\ pool'[a] # Nil

\* C11: once Close has returned the checker starts no dial and installs no
\* connection into the pool map, whatever it was doing when Close ran.
C11_NoRepairAfterClose ==
    [][CloseReturned => ~CheckerDials /\ ~Installs]_vars

\* C12: the pool state starts as connected, is closed when Close returns,
\* and once closed stays closed in every later state, so that ConnectedNow
\* of the pool reports false from then on.
C12_StateIsMonotonic ==
    /\ state = connConnected
    /\ [](last.op = "Close" => state = connClosed)
    /\ [](state = connClosed /\ ctor.pc = "ok" => ~connMultiConnectedNow)
    /\ [][state = connClosed => state' = connClosed]_vars

\* C12 witness: Close has returned and the pool nevertheless holds a
\* connection that is connected, so only the state makes ConnectedNow false.
C12_Witness ==
    /\ CloseReturned
    /\ ConnectedNow(getCurrentConnection.conn)
    /\ ~connMultiConnectedNow

\* C13: Close calls Close on every connection of the pool map and on the
\* fallback, whatever the earlier closes returned, and the error it returns
\* is the one of the first of these closes that failed, nil only if none
\* did.
C13_CloseReturnsFirstError ==
    last.op = "Close"
    => /\ Range(last.calls) = closeOwned \ {Nil}
       /\ \A c \in Range(last.calls) : ClosedNow(c)
       /\ last.err = IF last.fails = {} THEN 0
                     ELSE CHOOSE i \in last.fails : \A j \in last.fails : i <= j

\* The checker has just completed the handling of one notification.
NotifyDone == iter.branch = "notify" /\ iter.done

\* C19: the handling of a notification whose connection is closed and whose
\* address has a pool entry makes one dial, of that address, and leaves the
\* new connection as the entry, or no entry when the dial failed; the
\* handling of any other notification dials nothing and leaves the pool as
\* it was.  The tracked list is the same in every case.
C19_ClosedNotificationRedials ==
    NotifyDone
    => LET a == AddrOf(iter.ev)
       IN /\ addrs = iter.addrs0
          /\ IF ClosedNow(iter.ev) /\ iter.pool0[a] # Nil
             THEN /\ Len(iter.dialed) = 1
                  /\ iter.dialed[1].addr = a
                  /\ Len(conns) <= iter.n0 + 1
                  /\ pool = [iter.pool0 EXCEPT ![a] = iter.dialed[1].conn]
             ELSE /\ iter.dialed = <<>>
                  /\ Len(conns) = iter.n0
                  /\ pool = iter.pool0

\* C19 witness: the redial of a tracked address failed and its entry is
\* gone.
C19_Witness ==
    /\ NotifyDone
    /\ ClosedNow(iter.ev)
    /\ iter.pool0[AddrOf(iter.ev)] # Nil
    /\ Len(iter.dialed) = 1
    /\ iter.dialed[1].conn = Nil
    /\ pool[AddrOf(iter.ev)] = Nil
    /\ AddrOf(iter.ev) \in Range(addrs)

\* The checker has just completed a health check.
HealthDone == iter.branch = "health" /\ iter.done

\* The entry of address a after the first k dials of the iteration.
RECURSIVE EntryAfter(_, _)
EntryAfter(a, k) ==
    IF k = 0 THEN iter.pool0[a]
    ELSE IF iter.dialed[k].addr = a /\ iter.dialed[k].conn # Nil
    THEN iter.dialed[k].conn
    ELSE EntryAfter(a, k - 1)

\* C20: a completed health check has dialed only tracked addresses whose
\* entry was absent or closed, and every address whose entry was so at its
\* start (exactly those, when nothing else happened meanwhile); an entry is
\* the connection of the last successful dial of its address, and what it
\* was otherwise.  When nothing else happened and every dial succeeded,
\* every tracked address has an entry that is not closed.
C20_HealthCheckRepairsDeadEntries ==
    HealthDone
    => LET dialedAddrs == {iter.dialed[k].addr : k \in 1..Len(iter.dialed)}
       IN /\ addrs = iter.addrs0
          /\ \A k \in 1..Len(iter.dialed) :
               LET a == iter.dialed[k].addr
                   before == EntryAfter(a, k - 1)
               IN /\ a \in Range(iter.addrs0)
                  /\ before = Nil \/ ClosedNow(before)
          /\ iter.dead0 \subseteq dialedAddrs
          /\ iter.quiet => dialedAddrs = iter.dead0
          /\ \A a \in Addr : pool[a] = EntryAfter(a, Len(iter.dialed))
          /\ (iter.quiet /\ \A k \in 1..Len(iter.dialed) :
                               iter.dialed[k].conn # Nil)
             => \A a \in Range(addrs) : pool[a] # Nil /\ ~ClosedNow(pool[a])

\* C20 witness: a health check whose dial of an address failed and left the
\* closed entry of that address in the pool.
C20_Witness ==
    /\ HealthDone
    /\ \E k \in 1..Len(iter.dialed) :
         /\ iter.dialed[k].conn = Nil
         /\ pool[iter.dialed[k].addr] # Nil
         /\ ClosedNow(pool[iter.dialed[k].addr])

\* The begin body has been encoded without an error.
Encoded == enc.done /\ ~enc.err

\* The positions in the encoded body of the key k.
KeyAt(k) ==
    {i \in 2..Len(enc.buf) : i % 2 = 0 /\ enc.buf[i] = [t |-> "uint", v |-> k]}

\* C14: the body fillBegin writes is a map header followed by as many
\* entries as the header declares, none, one or two; the timeout entry is
\* there just when the timeout is positive, the isolation entry just when
\* the level is not the default one; the timeout entry comes first, and the
\* isolation entry holds the level as an unsigned integer.
C14_BeginBodyIsWellFormed ==
    Encoded
    => /\ enc.buf[1].t = "maplen"
       /\ Len(enc.buf) = 1 + 2 * enc.buf[1].v
       /\ enc.buf[1].v \in {0, 1, 2}
       /\ KeyAt(KeyTimeout) # {} <=> req.timeout > 0
       /\ KeyAt(KeyTxnIsolation) # {}
          <=> req.txnIsolation # DefaultIsolationLevel
       /\ Cardinality(KeyAt(KeyTimeout)) <= 1
       /\ Cardinality(KeyAt(KeyTxnIsolation)) <= 1
       /\ \A i \in KeyAt(KeyTimeout), j \in KeyAt(KeyTxnIsolation) : i < j
       /\ \A i \in KeyAt(KeyTimeout) :
            enc.buf[i + 1] = [t |-> "float", v |-> Seconds(req.timeout)]
       /\ \A j \in KeyAt(KeyTxnIsolation) :
            enc.buf[j + 1] = [t |-> "uint", v |-> req.txnIsolation]

\* C14 witness: a body of two entries.
C14_Witness ==
    /\ Encoded
    /\ enc.buf[1].v = 2
    /\ req.txnIsolation = BestEffortLevel
    /\ req.timeout > Second

\* What a reader of the body takes the request to be: a key that is absent
\* stands for the default level, a zero timeout.
DecodeBegin(buf) ==
    LET at(k) == {i \in 2..Len(buf) : i % 2 = 0 /\ buf[i].v = k}
        val(k) == buf[(CHOOSE i \in at(k) : TRUE) + 1].v
    IN [txnIsolation |-> IF at(KeyTxnIsolation) = {} THEN DefaultIsolationLevel
                         ELSE val(KeyTxnIsolation),
        timeout |-> IF at(KeyTimeout) = {} THEN 0
                    ELSE val(KeyTimeout).sec * Second + val(KeyTimeout).nsec]

\* C15: decoding the encoded body of a begin request gives back the
\* isolation level and the timeout of the request.
C15_BeginRoundTrips == Encoded => DecodeBegin(enc.buf) = req

\* Goroutine t holds the mutex, exclusively or shared.
Holds(t) == rw.w = t \/ t \in rw.r

\* C16: no goroutine is inside tarantool.Connect while it holds the mutex,
\* shared or exclusive, or waits for it: every dial, of warm-up and of the
\* three cases of the checker, has returned before the lock is taken for the
\* install or the eviction, so whoever keeps getCurrentConnection waiting
\* is not waiting for a dial itself.
C16_NoDialUnderLock ==
    \A t \in Thread :
      /\ Holds(t) \/ t \in rw.pending => ~At(t, {"dial"})
      /\ At(t, {"dial"}) => ~Holds(t) /\ t \notin rw.pending

\* C16 witness: the checker is inside a dial, and a caller is inside
\* getCurrentConnection with the shared lock.
C16_Witness ==
    /\ thr["checker"].dialing
    /\ \E c \in Callers :
         /\ thr[c].prog = "getCurrentConnection"
         /\ c \in rw.r

\* The goroutines that share the pool: all but the constructor, which has
\* the pool to itself until it starts the checker and returns.
Sharing == Thread \ {"ctor"}

\* C17: the pool map and the address list are the only fields the callers
\* and the checker read and write, and each of them writes a field only
\* with the mutex held exclusively and reads one only with the mutex held,
\* shared or exclusively.
C17_AccessesAreGuarded ==
    \A t \in Sharing :
      /\ At(t, {"read", "write"}) => Cur(t).f \in {"pool", "addrs"}
      /\ At(t, {"write"}) => rw.w = t
      /\ At(t, {"read"}) => Holds(t)

\* The connections that report an event in a step: those that change state
\* and those that are dialed and come up.
Emitting ==
    {c \in DOMAIN conns' :
       IF c \in DOMAIN conns THEN conns'[c].st # conns[c].st
       ELSE conns'[c].st = "connected"}

\* C18: whenever connections of the pool report events, the notify channel,
\* of capacity NotifyPerAddr for each address of the initial list, has a
\* free slot for each of them: during warm-up, while the checker is in a
\* dial, and while it is not receiving.
C18_NotifyHasFreeSlot ==
    [][Cardinality(Emitting) <= notify.cap - Len(notify.buf)]_vars

\* C21: a selection that returns a pool entry that is connected leaves the
\* fallback as it found it, whatever entries that are not connected come
\* before that entry in the tracked order.
C21_SelectionOfConnectedKeepsFallback ==
    /\ last.op = "delegate"
    /\ last.conn # Nil
    /\ ConnectedNow(last.conn)
    /\ pool[AddrOf(last.conn)] = last.conn
    => fallback = last.fallback0

\* Close has been called.
CloseCalled == \E t \in Thread : thr[t].prog = "Close"

\* C22: once Close is called the checker returns, in whichever case it is
\* and whichever case it selects next; in particular it does not wait for
\* the mutex for ever.
C22_CheckerTerminatesAfterClose ==
    /\ CloseCalled ~> thr["checker"] = ThrOff
    /\ At("checker", {"Lock", "RLock"}) ~> ~At("checker", {"Lock", "RLock"})

\* C22 witness: the checker waits in Lock for the install of the connection
\* it has dialed while Close holds the mutex.
C22_Witness ==
    /\ At("checker", {"Lock"})
    /\ "checker" \in rw.pending
    /\ rw.w \in Callers
    /\ thr[rw.w].prog = "Close"

\* The leading bytes of the msgpack format: an unsigned integer (positive
\* fixint 0x00-0x7f, uint 8/16/32/64 0xcc-0xcf), a map (fixmap 0x80-0x8f,
\* map 16/32 0xde-0xdf), an array (fixarray 0x90-0x9f, array 16/32
\* 0xdc-0xdd), a string (fixstr 0xa0-0xbf, str 8/16/32 0xd9-0xdb).
UintBytes == 0..127 \cup 204..207
MapBytes == 128..143 \cup 222..223
ArrayBytes == 144..159 \cup 220..221
StringBytes == 160..191 \cup 217..219

\* C23: each classifier is true exactly for the leading bytes of its kind,
\* msgpackIsUint false in particular for the negative fixints 0xe0-0xff,
\* and no byte is accepted by two classifiers.
C23_ClassifiersAreExact ==
    cls.done
    => /\ cls.uint <=> code \in UintBytes
       /\ cls.map <=> code \in MapBytes
       /\ cls.array <=> code \in ArrayBytes
       /\ cls.string <=> code \in StringBytes
       /\ Cardinality({k \in {"uint", "map", "array", "string"} : cls[k]}) <= 1

\* The connections the pool still holds: the entries of the map and the
\* fallback.
Held == ({pool[a] : a \in Addr} \cup {fallback}) \ {Nil}

\* The checker is between two iterations, or has returned.
AtBoundary == chk.pc \in {"select", "done"}

\* C24: no connection the pool has dialed is leaked.  Between two
\* iterations of the checker of a constructed pool every connection dialed
\* so far is closed, or is the pool entry of its address, or is the
\* fallback; and once Close has returned and the checker has returned,
\* every connection is closed.
C24_NoConnectionLeaks ==
    /\ ctor.pc = "ok" /\ AtBoundary /\ mutex = "none"
       => \A c \in DOMAIN conns :
            ClosedNow(c) \/ pool[AddrOf(c)] = c \/ fallback = c
    /\ CloseReturned /\ chk.pc = "done"
       => \A c \in DOMAIN conns : ClosedNow(c)

\* The addresses that have an entry in the pool map.
Keys == {a \in Addr : pool[a] # Nil}

\* C25: between two iterations of the checker of a constructed pool (after
\* warm-up, after each notify, discovery or health-check iteration) every
\* address with a pool entry is tracked; and the entry of an address that a
\* discovery tick removed from the list was closed by that tick.
C25_PoolKeysAreTracked ==
    /\ ctor.pc = "ok" /\ AtBoundary => Keys \subseteq Range(addrs)
    /\ DiscoveryDone
       => \A a \in Range(iter.addrs0) \ Range(addrs) :
            iter.pool0[a] # Nil
            => ClosedNow(iter.pool0[a]) /\ iter.pool0[a] \in iter.closed

\* C25 witness: a discovery tick has removed B, which had an entry, from
\* the tracked list.
C25_Witness ==
    /\ DiscoveryDone
    /\ "B" \in Range(iter.addrs0) \ Range(addrs)
    /\ iter.pool0["B"] # Nil
    /\ Keys = {"A"}
    /\ chk.pc = "select"

\* C26: the tracked list of a pool under construction or constructed is
\* never empty: ConnectWithOpts rejects an empty list and a discovery tick
\* replaces the list only by a non-empty one; so the health check always
\* has an address to go through.
C26_TrackedListIsNeverEmpty ==
    /\ ctor.pc \in {"warmUp", "ok"} => Len(addrs) >= 1
    /\ Len(addrs) = 0 => ctor.pc \in {"new", "ErrEmptyAddrs"}
    /\ chk.pc = "h_iter" => Len(chk.list) >= 1

\* C26 witness: the discovery function has answered with an empty list to a
\* constructed pool, and the tracked list is as it was.
C26_Witness ==
    /\ ctor.pc = "ok"
    /\ DiscoveryDone
    /\ iter.resp = "empty"
    /\ nodes = <<>>
    /\ addrs = iter.addrs0
    /\ Len(addrs) >= 1

====
